---- MODULE Spec2Model ----
(***************************************************************************)
(* Topside: the session orchestrator (SessionOrchestrator), its            *)
(* transcription service and the local Whisper provider.                   *)
(*                                                                         *)
(* JavaScript runs one macrotask at a time; a chain of awaits that only    *)
(* waits on already-settled promises runs inside the macrotask that        *)
(* started it.  An action below is therefore one macrotask: an input       *)
(* event (hotkey, escape, IPC), a timer, or the completion of an I/O       *)
(* operation, together with every continuation it resumes.                 *)
(***************************************************************************)
EXTENDS Integers, Sequences, FiniteSets, TLC

\* ------------------------------------------------------------------ bounds
MaxInputs == 6       \* input events (trigger, cancel, close, click) handled
LiveInputs == 4      \* the same, for the specification with fairness
MaxRound == 1        \* cap of roundNumber
MaxSegments == 1     \* segments a round collects
MaxCalls == 2        \* AI calls pending at once
MaxStarts == 2        \* startTranscription calls awaiting start() at once
MaxTimers == 2       \* cancel resets pending at once
MaxListeners == 2    \* orchestrator listener sets on the service
MaxGateChunks == 12   \* chunks accepted by the energy gate of the provider
MaxInstances == 3     \* AI provider instances constructed
MaxSockets == 2       \* sockets a streaming provider opens
MaxStreamChunks == 3  \* audio chunks sent to a streaming provider
MaxChunks == 3       \* audio chunks sent to the Whisper provider
MaxInferences == 2   \* whisperAddon.transcribe() calls pending at once
MaxText == 2         \* characters of a transcript text
MaxFinals == 2       \* final events of a round

\* --------------------------------------------------------------- constants
SAMPLE_RATE == 16000
MIN_DURATION_MS == 1500        \* MIN_DURATION_SEC = 1.5, in milliseconds
SILENCE_RMS_THRESHOLD == 5     \* 0.005, in thousandths
SPEECH_TAIL_CHUNKS == 10
CHUNK_SAMPLES == 800           \* one 50 ms chunk of the audio worklet

\* ------------------------------------------------------------------ state
VARIABLES
  orch,        \* the SessionOrchestrator's fields
  ts,          \* TranscribeService + provider: listeners, running
  captures,    \* captureContext() calls, one per session: position, object
  finalizers,  \* finalizeRound() calls awaiting this.contextReady
  stops,       \* provider.stop() calls still draining, with their caller
  aiCalls,     \* aiService.converse() calls pending
  timers,      \* setTimeout(hideAndReset, 300) pending
  env,         \* environment: the number of input events still to come
  ghost,       \* history store and bookkeeping for the properties
  wh,          \* the WhisperLocalProvider's fields and its pending calls
  rnd,         \* the texts of one round: segments, partial, transcript
  sp,          \* a streaming provider's fields, sockets and pending start() calls
  ais,         \* the AIService: config value, current provider, provider instances
  pb,          \* the last response given to parseButtons and what it returned
  cv,          \* one converse() call of an AI provider
  tsvc,        \* the TranscribeService and the provider instances it made
  starting     \* sessions whose startTranscription awaits start()

vars ==
  <<orch, ts, captures, finalizers, stops, aiCalls, timers, env, ghost, wh,
    rnd, sp, ais, pb, cv, tsvc, starting>>

State == [IDLE |-> "IDLE", RECORDING |-> "RECORDING",
          CONVERSING |-> "CONVERSING", CANCELLED |-> "CANCELLED"]

States == {State.IDLE, State.RECORDING, State.CONVERSING, State.CANCELLED}

EmptyConversation == [messages |-> <<>>, screenshot |-> 0, windowInfo |-> 0]

EmptyRound == [segments |-> 0, currentPartial |-> FALSE]

RemoveAt(s, i) == SubSeq(s, 1, i - 1) \o SubSeq(s, i + 1, Len(s))

\* what ghost.sent holds when the last step sent neither 'overlay:error' nor
\* 'overlay:round-complete'
NoEvent == [event |-> "none", error |-> FALSE, buttons |-> <<>>]

\* The whole system as one record, so that a handler is a function on it.
\* ghost.sent is the 'overlay:error' or 'overlay:round-complete' message that
\* the step sends to the overlay, so every handler starts with none.
World ==
  [orch |-> orch, ts |-> ts, captures |-> captures, finalizers |-> finalizers,
   stops |-> stops, aiCalls |-> aiCalls, timers |-> timers,
   ghost |-> [ghost EXCEPT !.sent = NoEvent], starting |-> starting]

CommitWorld(w) ==
  /\ orch' = w.orch
  /\ ts' = w.ts
  /\ captures' = w.captures
  /\ finalizers' = w.finalizers
  /\ stops' = w.stops
  /\ aiCalls' = w.aiCalls
  /\ timers' = w.timers
  /\ ghost' = w.ghost
  /\ starting' = w.starting
  /\ UNCHANGED <<wh, rnd, sp, ais, pb, cv, tsvc>>

Commit(w) == CommitWorld(w) /\ env' = env

\* An input event that the handler ignores leaves everything as it is; one
\* that it handles uses up one of the input events of the behaviour.
CommitInput(w) ==
  IF w = World THEN UNCHANGED vars
  ELSE /\ env.budget > 0
       /\ CommitWorld(w)
       /\ env' = [env EXCEPT !.budget = @ - 1]

\* -------------------------------------------------------- session lifecycle
reset(w) ==
  [w EXCEPT !.orch = [state |-> State.IDLE, aiInFlight |-> FALSE,
                      finalizing |-> FALSE,
                      conversation |-> EmptyConversation,
                      currentRound |-> EmptyRound,
                      roundNumber |-> 0, contextReady |-> 0],
            !.captures = [s \in DOMAIN @ |-> [@[s] EXCEPT !.own = FALSE]]]

hideAndReset(w) == reset(w)

\* historyService.save(...) of saveAndReset, guarded by messages.length > 0
historySave(w) ==
  IF Len(w.orch.conversation.messages) > 0
  THEN [w EXCEPT !.ghost.history = @ \cup {w.ghost.sessionId}]
  ELSE w

\* ----------------------------------------------------------- transcription
\* provider.stop() has to wait (in-progress inference, final pass) only when
\* the provider is running; d is whether there is anything to wait for.
Drains(w, d) == w.ts.running /\ d

\* provider.stop() sets running = false and waits; k is the awaiting caller.
beginDrain(w, k) ==
  [w EXCEPT !.ts.running = FALSE, !.stops = Append(@, k)]

\* removeAllListeners of TranscribeService.stop and of stopTranscription
removeListeners(w) == [w EXCEPT !.ts.listeners = 0]

\* stopTranscription() when provider.stop() returns without waiting
stopTranscription(w) == removeListeners([w EXCEPT !.ts.running = FALSE])

onServiceError_swallow(w) == w

onServiceError(w) ==
  [w EXCEPT !.orch.state = State.CONVERSING,
            !.ghost.sent = [event |-> "overlay:error", error |-> TRUE,
                            buttons |-> <<"Settings", "Dismiss">>]]

\* ok: provider.start() succeeds (it throws when the model file is missing)
startTranscription(w, ok) ==
  LET w1 == [w EXCEPT !.ts.listeners = @ + 1]
  IN IF ok THEN [w1 EXCEPT !.ts.running = TRUE]
     ELSE onServiceError(w1)

\* the orchestrator's 'final' listeners, one call per registered set
onFinal(w) ==
  IF w.ts.listeners > 0
     /\ w.orch.state \in {State.RECORDING, State.CONVERSING}
  THEN [w EXCEPT !.orch.currentRound.segments = @ + w.ts.listeners,
                 !.orch.currentRound.currentPartial = FALSE]
  ELSE w

\* ------------------------------------------------------------------ rounds
saveAndResetTail(w) == hideAndReset(historySave(w))

saveAndReset(w, d) ==
  IF Drains(w, d)
  THEN beginDrain(w, [who |-> "save", sess |-> w.ghost.sessionId,
                      round |-> 0, emitted |-> FALSE])
  ELSE saveAndResetTail(stopTranscription(w))

\* respondToUser up to its await of aiService.converse
respondToUser(w, s, ff) ==
  [w EXCEPT !.orch.conversation.messages =
               Append(@, "user"),
            !.orch.aiInFlight = TRUE,
            !.aiCalls = Append(@, [sess |-> s, fromFinalize |-> ff])]

finalizeTail_noBlankCheck(w, f, d) ==
  IF w.orch.roundNumber # f.round
  THEN [w EXCEPT !.orch.finalizing = FALSE]
  ELSE respondToUser(w, f.sess, TRUE)

\* finalizeRound after `await this.stopTranscription()`
finalizeTail(w, f, d) ==
  IF w.orch.roundNumber # f.round
  THEN [w EXCEPT !.orch.finalizing = FALSE]
  ELSE LET r == w.orch.currentRound
           blank == r.segments = 0 /\ ~r.currentPartial
       IN IF blank
          THEN [saveAndReset(w, d) EXCEPT !.orch.finalizing = FALSE]
          ELSE respondToUser(w, f.sess, TRUE)

\* finalizeRound after `await this.contextReady`
finalizeAfterContext(w, f, d) ==
  IF w.orch.roundNumber # f.round
  THEN [w EXCEPT !.orch.finalizing = FALSE]
  ELSE IF Drains(w, d)
       THEN beginDrain(w, [who |-> "finalize", sess |-> f.sess,
                           round |-> f.round, emitted |-> FALSE])
       ELSE finalizeTail(stopTranscription(w), f, FALSE)

finalizeRound(w, d) ==
  LET f == [sess |-> w.ghost.sessionId, round |-> w.orch.roundNumber]
      w1 == [w EXCEPT !.orch.state = State.CONVERSING,
                      !.orch.finalizing = TRUE]
  IN IF w.orch.contextReady # 0
     THEN [w1 EXCEPT !.finalizers =
             Append(@, [sess |-> f.sess, round |-> f.round,
                        cap |-> w.orch.contextReady])]
     ELSE finalizeAfterContext(w1, f, d)

\* ---------------------------------------------------------- input handlers
onTriggerDown_noFlagCheck(w, d, ok) ==
  CASE w.orch.state = State.RECORDING -> finalizeRound(w, d)
    [] w.orch.state = State.CONVERSING ->
         startTranscription(
           [w EXCEPT !.orch.roundNumber = @ + 1,
                     !.orch.currentRound = EmptyRound,
                     !.orch.state = State.RECORDING], ok)
    [] w.orch.state = State.CANCELLED -> w
    [] w.orch.state = State.IDLE ->
         LET s == w.ghost.sessionId + 1
             w1 == [w EXCEPT !.orch.state = State.RECORDING,
                             !.orch.roundNumber = 0,
                             !.orch.conversation = EmptyConversation,
                             !.orch.currentRound = EmptyRound,
                             !.ghost.sessionId = s,
                             !.captures =
                               [c \in DOMAIN @ |-> [@[c] EXCEPT !.own = FALSE]]]
             w2 == startTranscription(w1, ok)
         IN [w2 EXCEPT !.orch.contextReady = s,
                       !.captures[s] = [pc |-> "win", own |-> FALSE]]

onTriggerDown(w, d, ok) ==
  CASE w.orch.state = State.RECORDING -> finalizeRound(w, d)
    [] w.orch.state = State.CONVERSING ->
         IF w.orch.aiInFlight \/ w.orch.finalizing THEN w
         ELSE startTranscription(
                [w EXCEPT !.orch.roundNumber = @ + 1,
                          !.orch.currentRound = EmptyRound,
                          !.orch.state = State.RECORDING], ok)
    [] w.orch.state = State.CANCELLED -> w
    [] w.orch.state = State.IDLE ->
         LET s == w.ghost.sessionId + 1
             w1 == [w EXCEPT !.orch.state = State.RECORDING,
                             !.orch.roundNumber = 0,
                             !.orch.conversation = EmptyConversation,
                             !.orch.currentRound = EmptyRound,
                             !.ghost.sessionId = s,
                             !.captures =
                               [c \in DOMAIN @ |-> [@[c] EXCEPT !.own = FALSE]]]
             w2 == startTranscription(w1, ok)
         IN [w2 EXCEPT !.orch.contextReady = s,
                       !.captures[s] = [pc |-> "win", own |-> FALSE]]

onCancel_noReset(w, d) ==
  IF w.orch.state = State.IDLE THEN w
  ELSE LET w1 == [w EXCEPT !.orch.state = State.CANCELLED]
       IN IF Drains(w1, d)
          THEN beginDrain(w1, [who |-> "cancel", sess |-> w.ghost.sessionId,
                               round |-> 0, emitted |-> FALSE])
          ELSE stopTranscription(w1)

onCancel_noIdleCheck(w, d) ==
  LET w1 == [w EXCEPT !.orch.state = State.CANCELLED]
  IN IF Drains(w1, d)
     THEN beginDrain(w1, [who |-> "cancel", sess |-> w.ghost.sessionId,
                          round |-> 0, emitted |-> FALSE])
     ELSE [stopTranscription(w1) EXCEPT
             !.timers = Append(@, w.ghost.sessionId)]

onCancel(w, d) ==
  IF w.orch.state = State.IDLE THEN w
  ELSE LET w1 == [w EXCEPT !.orch.state = State.CANCELLED]
       IN IF Drains(w1, d)
          THEN beginDrain(w1, [who |-> "cancel", sess |-> w.ghost.sessionId,
                               round |-> 0, emitted |-> FALSE])
          ELSE [stopTranscription(w1) EXCEPT
                  !.timers = Append(@, w.ghost.sessionId)]

onClose(w, d) ==
  IF w.orch.state = State.IDLE THEN w ELSE saveAndReset(w, d)

onButtonClick(w, label, d) ==
  CASE label = "Settings" -> w
    [] label = "Dismiss" -> onClose(w, d)
    [] OTHER ->
         IF w.orch.state # State.CONVERSING THEN w
         ELSE respondToUser(w, w.ghost.sessionId, FALSE)

\* ------------------------------------------- WhisperLocalProvider (whisper)
Range(s) == {s[i] : i \in DOMAIN s}

\* texts are sequences of characters
\* the characters \s matches among those the texts here use
WhiteSpace == {" ", "\n", "\t"}

RECURSIVE trimStart(_)
trimStart(t) ==
  IF t # <<>> /\ Head(t) \in WhiteSpace THEN trimStart(Tail(t)) ELSE t

RECURSIVE trimEnd(_)
trimEnd(t) ==
  IF t # <<>> /\ t[Len(t)] \in WhiteSpace THEN trimEnd(SubSeq(t, 1, Len(t) - 1)) ELSE t

\* String.prototype.trim
trim(t) == trimEnd(trimStart(t))

Upper ==
  <<"A", "B", "C", "D", "E", "F", "G", "H", "I", "J", "K", "L", "M",
    "N", "O", "P", "Q", "R", "S", "T", "U", "V", "W", "X", "Y", "Z">>

Lower ==
  <<"a", "b", "c", "d", "e", "f", "g", "h", "i", "j", "k", "l", "m",
    "n", "o", "p", "q", "r", "s", "t", "u", "v", "w", "x", "y", "z">>

\* the /i flag of the patterns: letters compare without case
fold(t) ==
  [k \in DOMAIN t |->
     IF \E u \in DOMAIN Upper : Upper[u] = t[k]
     THEN Lower[CHOOSE u \in DOMAIN Upper : Upper[u] = t[k]]
     ELSE t[k]]

\* an unanchored pattern that is a literal: t contains sub
contains(t, sub) ==
  \E k \in 0..(Len(t) - Len(sub)) : SubSeq(t, k + 1, k + Len(sub)) = sub

\* /^\s*\.+\s*$/
onlyDots(t) == trim(t) # <<>> /\ \A k \in DOMAIN trim(t) : trim(t)[k] = "."

FillerWords ==
  {<<"y", "o", "u">>, <<"t", "h", "e">>, <<"a">>, <<"i">>, <<"w", "e">>, <<"h", "e">>, <<"s", "h", "e">>, <<"i", "t">>}

\* HALLUCINATION_PATTERNS.some(p => p.test(t))
matchesPattern(t) ==
  \/ onlyDots(t)
  \/ \E w \in FillerWords : fold(t) = w \/ fold(t) = w \o <<".">>
  \/ contains(fold(t), <<"t", "h", "a", "n", "k", "s">>)
  \/ contains(fold(t), <<"t", "h", "a", "n", "k", " ", "y", "o", "u">>)
  \/ contains(fold(t), <<"p", "l", "e", "a", "s", "e", " ", "l", "i", "k", "e">>)
  \/ contains(fold(t), <<"p", "l", "e", "a", "s", "e", " ", "s", "u", "b", "s", "c", "r", "i", "b", "e">>)
  \/ contains(fold(t), <<"[", "m", "u", "s", "i", "c", "]">>)
  \/ contains(fold(t), <<"[", "a", "p", "p", "l", "a", "u", "s", "e", "]">>)

isHallucination(text) ==
  IF text = <<>> \/ Len(trim(text)) <= 1 THEN TRUE
  ELSE matchesPattern(trim(text))

\* what whisperAddon.transcribe() can resolve with: the joined texts of its
\* segments, which start with a space
Transcriptions ==
  {<<>>, <<" ">>,
   <<" ", ".">>,
   <<" ", ".", ".", ".">>,
   <<" ", "a">>,
   <<" ", "I">>,
   <<" ", "y", "o", "u">>,
   <<" ", "Y", "o", "u", ".">>,
   <<" ", "o", "k">>,
   <<" ", "T", "h", "a", "n", "k", " ", "y", "o", "u", " ", "f", "o", "r", " ", "w", "a", "t", "c", "h", "i", "n", "g", "!">>,
   <<" ", "[", "M", "U", "S", "I", "C", "]">>,
   <<" ", "t", "u", "r", "n", " ", "o", "f", "f", " ", "t", "h", "e", " ", "l", "i", "g", "h", "t", "s">>}

\* the texts runInference can pass to isHallucination, and those it rejects
\* (isHallucination evaluated once for each)
TranscribedTexts == {trim(r) : r \in Transcriptions} \ {<<>>}

Rejected == {text \in TranscribedTexts : isHallucination(text)}

Results ==
  [thrown : {FALSE}, raw : Transcriptions] \cup {[thrown |-> TRUE, raw |-> <<>>]}

\* the provider after construction; inflight are the whisperAddon.transcribe()
\* calls not yet resolved, stopPc the position of a stop() call that waits,
\* chunks/inferred/waitExpired are bookkeeping for the properties, and so are
\* heard (this run has received a chunk at or above the threshold) and quiet
\* (the chunks below the threshold received since that one, counted up to
\* SPEECH_TAIL_CHUNKS + 1) and emitted (the 'final' events of the last step)
\* and speechBuffered (a chunk at or above the threshold is in pendingAudio;
\* an inflight call records it as speech)
WhisperNew ==
  [running |-> FALSE, inferenceTimer |-> FALSE, processing |-> FALSE,
   pendingAudio |-> <<>>, pendingSamples |-> 0, speechCountdown |-> 0,
   hasSpeechContent |-> FALSE, lastSegmentText |-> <<>>, inflight |-> <<>>,
   stopPc |-> "none", chunks |-> 0, inferred |-> {}, waitExpired |-> FALSE,
   heard |-> FALSE, quiet |-> 0, emitted |-> <<>>, speechBuffered |-> FALSE]

whisperStart(p, ok) ==
  IF p.running \/ ~ok THEN p
  ELSE [p EXCEPT !.running = TRUE, !.speechBuffered = FALSE, !.pendingAudio = <<>>,
                 !.pendingSamples = 0, !.lastSegmentText = <<>>,
                 !.processing = FALSE, !.speechCountdown = 0,
                 !.hasSpeechContent = FALSE, !.inferenceTimer = TRUE,
                 !.heard = FALSE, !.quiet = 0]

\* rms in thousandths, len in samples; an accepted chunk gets the next id
whisperSendAudioChunk_noCountdown(p, rms, len) ==
  IF ~p.running THEN p
  ELSE LET id == p.chunks + 1
           push(q) == [q EXCEPT !.pendingAudio = Append(@, id),
                                !.pendingSamples = @ + len,
                                !.chunks = id]
           more == IF p.quiet <= SPEECH_TAIL_CHUNKS THEN p.quiet + 1 ELSE p.quiet
       IN IF rms >= SILENCE_RMS_THRESHOLD
          THEN push([p EXCEPT !.speechCountdown = SPEECH_TAIL_CHUNKS,
                              !.hasSpeechContent = TRUE,
                              !.speechBuffered = TRUE,
                              !.heard = TRUE, !.quiet = 0])
          ELSE IF p.speechCountdown > 0
               THEN push([p EXCEPT !.quiet = more])
               ELSE [p EXCEPT !.quiet = more]

whisperSendAudioChunk(p, rms, len) ==
  IF ~p.running THEN p
  ELSE LET id == p.chunks + 1
           push(q) == [q EXCEPT !.pendingAudio = Append(@, id),
                                !.pendingSamples = @ + len,
                                !.chunks = id]
           more == IF p.quiet <= SPEECH_TAIL_CHUNKS THEN p.quiet + 1 ELSE p.quiet
       IN IF rms >= SILENCE_RMS_THRESHOLD
          THEN push([p EXCEPT !.speechCountdown = SPEECH_TAIL_CHUNKS,
                              !.hasSpeechContent = TRUE,
                              !.speechBuffered = TRUE,
                              !.heard = TRUE, !.quiet = 0])
          ELSE IF p.speechCountdown > 0
               THEN push([p EXCEPT !.speechCountdown = @ - 1, !.quiet = more])
               ELSE [p EXCEPT !.quiet = more]

\* runInference up to its await of whisperAddon.transcribe()
runInference_noMinDuration(p, isFinal) ==
  IF p.processing \/ Len(p.pendingAudio) = 0 THEN p
  ELSE IF ~isFinal /\ ~p.hasSpeechContent
       THEN [p EXCEPT !.speechBuffered = FALSE, !.pendingAudio = <<>>, !.pendingSamples = 0]
       ELSE [p EXCEPT !.processing = TRUE,
                      !.inflight = Append(@, [input |-> p.pendingAudio,
                                              samples |-> p.pendingSamples,
                                              isFinal |-> isFinal,
                                              speech |-> p.speechBuffered]),
                      !.inferred = @ \cup Range(p.pendingAudio)]

runInference_noSpeechCheck(p, isFinal) ==
  IF p.processing \/ Len(p.pendingAudio) = 0 THEN p
  ELSE IF ~isFinal
            /\ p.pendingSamples * 1000 < MIN_DURATION_MS * SAMPLE_RATE
       THEN p
       ELSE [p EXCEPT !.processing = TRUE,
                      !.inflight = Append(@, [input |-> p.pendingAudio,
                                              samples |-> p.pendingSamples,
                                              isFinal |-> isFinal,
                                              speech |-> p.speechBuffered]),
                      !.inferred = @ \cup Range(p.pendingAudio)]

runInference(p, isFinal) ==
  IF p.processing \/ Len(p.pendingAudio) = 0 THEN p
  ELSE IF ~isFinal /\ ~p.hasSpeechContent
       THEN [p EXCEPT !.speechBuffered = FALSE, !.pendingAudio = <<>>, !.pendingSamples = 0]
       ELSE IF ~isFinal
                 /\ p.pendingSamples * 1000 < MIN_DURATION_MS * SAMPLE_RATE
            THEN p
            ELSE [p EXCEPT !.processing = TRUE,
                           !.inflight = Append(@, [input |-> p.pendingAudio,
                                                   samples |-> p.pendingSamples,
                                                   isFinal |-> isFinal,
                                                   speech |-> p.speechBuffered]),
                           !.inferred = @ \cup Range(p.pendingAudio)]

\* the end of stop(), after the final pass or when there is none
whisperStopTail(p) ==
  [p EXCEPT !.speechBuffered = FALSE, !.pendingAudio = <<>>, !.pendingSamples = 0, !.stopPc = "none"]

\* stop() after its wait for the inference in progress
whisperStopAfterWait(p) ==
  IF Len(p.pendingAudio) > 0 /\ ~p.processing
  THEN [runInference(p, TRUE) EXCEPT !.stopPc = "final"]
  ELSE whisperStopTail(p)

whisperStop(p) ==
  IF ~p.running THEN p
  ELSE LET p1 == [p EXCEPT !.running = FALSE, !.inferenceTimer = FALSE]
       IN IF p1.processing THEN [p1 EXCEPT !.stopPc = "wait"]
          ELSE whisperStopAfterWait(p1)

\* one wake-up of stop()'s polling loop; expired: 5000 ms have passed
whisperStopPoll(p, expired) ==
  IF p.processing /\ ~expired THEN p
  ELSE whisperStopAfterWait([p EXCEPT !.waitExpired = @ \/ p.processing])

transcribeDone_noFilter(p, i, res) ==
  LET t == p.inflight[i]
      text == trim(res.raw)
      ok == text # <<>>
      p1 == [p EXCEPT !.inflight = RemoveAt(@, i)]
      p2 == IF res.thrown THEN p1
            ELSE [p1 EXCEPT !.lastSegmentText = IF ok THEN text ELSE @,
                            !.emitted = IF ok THEN <<text>> ELSE <<>>,
                            !.speechBuffered = FALSE, !.pendingAudio = <<>>, !.pendingSamples = 0,
                            !.hasSpeechContent = FALSE]
      p3 == [p2 EXCEPT !.processing = FALSE]
  IN IF t.isFinal THEN whisperStopTail(p3) ELSE p3

transcribeDone_clearsOnThrow(p, i, res) ==
  LET t == p.inflight[i]
      text == trim(res.raw)
      ok == ~res.thrown /\ text # <<>> /\ text \notin Rejected
      p1 == [p EXCEPT !.inflight = RemoveAt(@, i)]
      p2 == [p1 EXCEPT !.lastSegmentText = IF ok THEN text ELSE @,
                       !.emitted = IF ok THEN <<text>> ELSE <<>>,
                       !.speechBuffered = FALSE, !.pendingAudio = <<>>, !.pendingSamples = 0,
                       !.hasSpeechContent = FALSE]
      p3 == [p2 EXCEPT !.processing = FALSE]
  IN IF t.isFinal THEN whisperStopTail(p3) ELSE p3

\* runInference after its await: transcribe() resolved with segments whose
\* joined text is res.raw, or it rejected (res.thrown)
transcribeDone(p, i, res) ==
  LET t == p.inflight[i]
      text == trim(res.raw)
      ok == text # <<>> /\ text \notin Rejected
      p1 == [p EXCEPT !.inflight = RemoveAt(@, i)]
      p2 == IF res.thrown THEN p1
            ELSE [p1 EXCEPT !.lastSegmentText = IF ok THEN text ELSE @,
                            !.emitted = IF ok THEN <<text>> ELSE <<>>,
                            !.speechBuffered = FALSE, !.pendingAudio = <<>>, !.pendingSamples = 0,
                            !.hasSpeechContent = FALSE]
      p3 == [p2 EXCEPT !.processing = FALSE]
  IN IF t.isFinal THEN whisperStopTail(p3) ELSE p3

\* the provider as a handler finds it: no event emitted yet
Wh == [wh EXCEPT !.emitted = <<>>]

WhisperStep(p) == wh' = p /\ UNCHANGED
  <<orch, ts, captures, finalizers, stops, aiCalls, timers, env, ghost, rnd,
    sp, ais, pb, cv, tsvc, starting>>

\* the chunks of CHUNK_SAMPLES samples that make up MIN_DURATION_SEC of audio
MinChunks == (MIN_DURATION_MS * SAMPLE_RATE) \div (1000 * CHUNK_SAMPLES)

WhisperStart == \E ok \in BOOLEAN : WhisperStep(whisperStart(Wh, ok))

WhisperSendAudioChunk ==
  /\ wh.chunks < MaxChunks
  /\ \E rms \in {SILENCE_RMS_THRESHOLD - 1, SILENCE_RMS_THRESHOLD},
        n \in {1, MinChunks - 1, MinChunks} :
       WhisperStep(whisperSendAudioChunk(Wh, rms, n * CHUNK_SAMPLES))

WhisperTimer ==
  /\ wh.inferenceTimer
  /\ Len(wh.inflight) < MaxInferences
  /\ WhisperStep(runInference(Wh, FALSE))

WhisperTranscribeDone ==
  \E i \in DOMAIN wh.inflight, res \in Results :
    WhisperStep(transcribeDone(Wh, i, res))

WhisperStop ==
  /\ wh.stopPc = "none"
  /\ Len(wh.inflight) < MaxInferences
  /\ WhisperStep(whisperStop(Wh))

WhisperStopPoll ==
  /\ wh.stopPc = "wait"
  /\ Len(wh.inflight) < MaxInferences
  /\ \E expired \in BOOLEAN : WhisperStep(whisperStopPoll(Wh, expired))

\* chunks of CHUNK_SAMPLES samples, as the audio worklet sends them
GateChunk ==
  /\ wh.chunks < MaxGateChunks
  /\ \E rms \in {0, SILENCE_RMS_THRESHOLD - 1, SILENCE_RMS_THRESHOLD} :
       WhisperStep(whisperSendAudioChunk(Wh, rms, CHUNK_SAMPLES))

\* the provider between two firings of its inference timer
GateNext ==
  \/ WhisperStart
  \/ GateChunk
  \/ WhisperStop
  \/ WhisperTranscribeDone

WhisperNext ==
  \/ WhisperStart
  \/ WhisperSendAudioChunk
  \/ WhisperTimer
  \/ WhisperTranscribeDone
  \/ WhisperStop
  \/ WhisperStopPoll

\* ---------------------------------------------------- the texts of one round
Chars == {"a", " "}

Texts == UNION {[1..n -> Chars] : n \in 0..MaxText}

\* Array.prototype.join(' ')
RECURSIVE join(_)
join(ss) ==
  IF ss = <<>> THEN <<>>
  ELSE IF Len(ss) = 1 THEN ss[1]
       ELSE ss[1] \o <<" ">> \o join(Tail(ss))

\* a round as startTranscription's handlers and finalizeRound see it; finals
\* and lastPartial record what the provider emitted, transcript is what
\* finalizeRound built (closed: it found no transcript and ended the session)
RoundNew ==
  [segments |-> <<>>, currentPartial |-> <<>>, finals |-> <<>>,
   lastPartial |-> <<>>, built |-> FALSE, closed |-> FALSE,
   transcript |-> <<>>]

\* the providers' handleResponse: a blank transcript is not emitted
onPartialText(r, text) ==
  IF trim(text) = <<>> THEN r
  ELSE [r EXCEPT !.currentPartial = text, !.lastPartial = text]

onFinalText(r, text) ==
  IF trim(text) = <<>> THEN r
  ELSE [r EXCEPT !.segments = Append(@, trim(text)),
                 !.currentPartial = <<>>,
                 !.finals = Append(@, text)]

buildTranscript_noFallback(r) ==
  LET joined == join(r.segments)
  IN [r EXCEPT !.built = TRUE, !.closed = (trim(joined) = <<>>),
               !.transcript = joined]

buildTranscript(r) ==
  LET joined == join(r.segments)
      transcript == IF trim(joined) = <<>> /\ trim(r.currentPartial) # <<>>
                    THEN trim(r.currentPartial) ELSE joined
  IN [r EXCEPT !.built = TRUE, !.closed = (trim(transcript) = <<>>),
               !.transcript = transcript]

RoundStep(r) == rnd' = r /\ UNCHANGED
  <<orch, ts, captures, finalizers, stops, aiCalls, timers, env, ghost, wh,
    sp, ais, pb, cv, tsvc, starting>>

RoundPartial ==
  /\ ~rnd.built
  /\ \E text \in Texts : RoundStep(onPartialText(rnd, text))

RoundFinal ==
  /\ ~rnd.built
  /\ Len(rnd.finals) < MaxFinals
  /\ \E text \in Texts : RoundStep(onFinalText(rnd, text))

RoundBuild == ~rnd.built /\ RoundStep(buildTranscript(rnd))

RoundReset == rnd.built /\ RoundStep(RoundNew)

RoundNext == RoundPartial \/ RoundFinal \/ RoundBuild \/ RoundReset

\* ------------------------------------- DeepgramProvider (streaming provider)
\* (AwsTranscribeProvider has the same start, stop and sendAudioChunk.)
\* socks are the WebSockets created so far, with what was sent on each; ws is
\* this.ws as an index into socks (0 for null); starts are the sockets whose
\* start() call still awaits 'open' or 'error'; chunks counts the chunks
\* passed to sendAudioChunk. A socket is "closing" from ws.close() until its
\* 'close' event; handlers: start() has set its message, error and close
\* handlers on it. errors counts the 'error' events the provider emitted;
\* stopped are the pending start() calls during which stop() was called
StreamNew ==
  [running |-> FALSE, connecting |-> FALSE, pendingChunks |-> <<>>,
   ws |-> 0, socks |-> <<>>, starts |-> {}, chunks |-> 0, errors |-> 0,
   stopped |-> {}]

\* start() up to its await; hasKey: an API key is configured
streamStart(p, hasKey) ==
  IF p.running \/ ~hasKey THEN p
  ELSE LET k == Len(p.socks) + 1
       IN [p EXCEPT !.connecting = TRUE, !.pendingChunks = <<>>,
                    !.socks = Append(@, [state |-> "connecting", sent |-> <<>>,
                                         handlers |-> FALSE]),
                    !.ws = k, !.starts = @ \cup {k}]

\* the catch block of start()
streamStartFailed(p) ==
  [p EXCEPT !.running = FALSE, !.connecting = FALSE, !.pendingChunks = <<>>]

\* start() after its await when socket k opened: the flush of pendingChunks
\* through this.ws, then the handlers set on this.ws. ws.send() throws on a
\* socket that is still connecting, and this.ws.send / this.ws.on throw when
\* this.ws is null; on a closing or closed socket send() throws or drops the
\* data (throws).
streamOpened(p, k, throws) ==
  LET p1 == [p EXCEPT !.socks[k].state = "open", !.starts = @ \ {k},
                      !.stopped = @ \ {k},
                      !.running = TRUE, !.connecting = FALSE]
      p2 == [p1 EXCEPT !.socks[p1.ws].handlers = TRUE]
  IN IF p1.ws = 0 THEN streamStartFailed(p1)
     ELSE IF p1.pendingChunks = <<>> THEN p2
     ELSE CASE p1.socks[p1.ws].state = "open" ->
                 [p2 EXCEPT !.socks[p1.ws].sent = @ \o p1.pendingChunks,
                            !.pendingChunks = <<>>]
            [] p1.socks[p1.ws].state = "connecting" -> streamStartFailed(p1)
            [] OTHER ->
                 IF throws THEN streamStartFailed(p1)
                 ELSE [p2 EXCEPT !.pendingChunks = <<>>]

\* start() after its await when socket k failed or the timeout expired
streamConnectFailed(p, k) ==
  streamStartFailed([p EXCEPT !.socks[k].state = "closed", !.starts = @ \ {k},
                               !.stopped = @ \ {k}])

streamStop(p) ==
  IF ~p.running \/ p.ws = 0 THEN p
  ELSE [p EXCEPT !.running = FALSE, !.pendingChunks = <<>>,
                 !.socks[p.ws].state = IF @ = "open" THEN "closing" ELSE @,
                 !.ws = 0]

streamSendAudioChunk(p) ==
  LET id == p.chunks + 1
      p1 == [p EXCEPT !.chunks = id]
  IN IF p.ws = 0 \/ p.socks[p.ws].state # "open"
     THEN IF p.connecting \/ p.running
          THEN [p1 EXCEPT !.pendingChunks = Append(@, id)]
          ELSE p1
     ELSE [p1 EXCEPT !.socks[p.ws].sent = Append(@, id)]

\* the 'close' event of socket k, with code 1000 (normal) or another code;
\* its 'close' handler runs when start() has set one
streamClosed(p, k, normal) ==
  LET p1 == [p EXCEPT !.socks[k].state = "closed"]
  IN IF ~p.socks[k].handlers THEN p1
     ELSE [p1 EXCEPT !.running = FALSE,
                     !.errors = IF p.running /\ ~normal THEN @ + 1 ELSE @]

StreamStep(p) == sp' = p /\ UNCHANGED
  <<orch, ts, captures, finalizers, stops, aiCalls, timers, env, ghost, wh,
    rnd, ais, pb, cv, tsvc, starting>>

StreamStart ==
  /\ Len(sp.socks) < MaxSockets
  /\ \E hasKey \in BOOLEAN : StreamStep(streamStart(sp, hasKey))

StreamOpened ==
  \E k \in sp.starts, throws \in BOOLEAN : StreamStep(streamOpened(sp, k, throws))

StreamConnectFailed ==
  \E k \in sp.starts : StreamStep(streamConnectFailed(sp, k))

StreamStop ==
  StreamStep([streamStop(sp) EXCEPT !.stopped = @ \cup sp.starts])

StreamSendAudioChunk ==
  /\ sp.chunks < MaxStreamChunks
  /\ StreamStep(streamSendAudioChunk(sp))

StreamClosed ==
  \E k \in DOMAIN sp.socks, normal \in BOOLEAN :
    /\ sp.socks[k].state \in {"open", "closing"}
    /\ StreamStep(streamClosed(sp, k, normal))

StreamNext ==
  \/ StreamStart
  \/ StreamOpened
  \/ StreamConnectFailed
  \/ StreamStop
  \/ StreamSendAudioChunk
  \/ StreamClosed

\* ----------------------------------------------------------------- AIService
\* ids of the PROVIDERS registry used here; bedrock is the default
ProviderIds == {"bedrock", "anthropic", "local"}

\* config is the 'ai.provider' value; instances are the provider objects
\* constructed so far: client (a client or model is cached in the object),
\* invalidated (its invalidateClient was called); provider indexes
\* this.provider in instances (0 for null); used is the instance of the last
\* converse
AIServiceNew ==
  [config |-> "bedrock", providerType |-> "null", provider |-> 0,
   instances |-> <<>>, used |-> 0]

aiSetProvider(a, id) == [a EXCEPT !.config = id]

getProvider(a) ==
  IF a.providerType # a.config
  THEN [a EXCEPT !.instances = Append(@, [type |-> a.config, client |-> FALSE,
                                          invalidated |-> FALSE]),
                 !.provider = Len(a.instances) + 1,
                 !.providerType = a.config]
  ELSE a

invalidateClient(a) ==
  LET a1 == IF a.provider # 0
            THEN [a EXCEPT !.instances[a.provider].client = FALSE,
                           !.instances[a.provider].invalidated = TRUE]
            ELSE a
  IN [a1 EXCEPT !.provider = 0, !.providerType = "null"]

\* converse: getProvider(), then provider.converse, which creates the
\* provider's client (or loads its model) when it has none
aiConverse(a) ==
  LET a1 == getProvider(a)
  IN [a1 EXCEPT !.instances[a1.provider].client = TRUE,
                !.used = a1.provider]

AIStep(a) == ais' = a /\ UNCHANGED
  <<orch, ts, captures, finalizers, stops, aiCalls, timers, env, ghost, wh,
    rnd, sp, pb, cv, tsvc, starting>>

AISetProvider == \E id \in ProviderIds : AIStep(aiSetProvider(ais, id))

AIConverse ==
  /\ ais.providerType # ais.config => Len(ais.instances) < MaxInstances
  /\ AIStep(aiConverse(ais))

AIInvalidateClient == AIStep(invalidateClient(ais))

AINext == AISetProvider \/ AIConverse \/ AIInvalidateClient

\* ------------------------------------------------------------ parseButtons
\* The AI service's parseButtons(text) over texts as character sequences.

Min(S) == CHOOSE x \in S : \A y \in S : x <= y

RECURSIVE flatten(_)
flatten(ss) == IF ss = <<>> THEN <<>> ELSE Head(ss) \o flatten(Tail(ss))

\* String.prototype.split with a one-character separator
RECURSIVE split(_, _)
split(t, sep) ==
  IF \A i \in DOMAIN t : t[i] # sep THEN <<t>>
  ELSE LET k == Min({i \in DOMAIN t : t[i] = sep})
       IN <<SubSeq(t, 1, k - 1)>> \o split(SubSeq(t, k + 1, Len(t)), sep)

\* Array.prototype.join with a one-character separator
RECURSIVE joinWith(_, _)
joinWith(ss, sep) ==
  IF ss = <<>> THEN <<>>
  ELSE IF Len(ss) = 1 THEN ss[1]
  ELSE ss[1] \o <<sep>> \o joinWith(Tail(ss), sep)

\* .filter(Boolean) on a list of strings
nonEmpty(ss) == SelectSeq(ss, LAMBDA s : s # <<>>)

Quotes == {"\"", "'"}

\* s.replace(/^["']|["']$/g, '')
stripQuotes(s) ==
  LET a == IF s # <<>> /\ Head(s) \in Quotes THEN Tail(s) ELSE s
  IN IF a # <<>> /\ a[Len(a)] \in Quotes THEN SubSeq(a, 1, Len(a) - 1) ELSE a

\* the literal "[BUTTONS:" of both patterns, folded for the /i flag
ButtonsTag == <<"[", "b", "u", "t", "t", "o", "n", "s", ":">>

tagAt(t, i) ==
  i + Len(ButtonsTag) - 1 <= Len(t)
    /\ fold(SubSeq(t, i, i + Len(ButtonsTag) - 1)) = ButtonsTag

\* text.match(/\[BUTTONS:\s*([\s\S]+?)\]\s*$/i).index, 0 when there is no
\* match: the leftmost "[BUTTONS:" with at least one character between it and
\* a "]" that only whitespace follows
completeTagIndex(t) ==
  LET e == Len(trimEnd(t))
      S == {i \in 1..e : tagAt(t, i) /\ i + Len(ButtonsTag) <= e - 1}
  IN IF e > 0 /\ t[e] = "]" /\ S # {} THEN Min(S) ELSE 0

\* match[1]: what the lazy group holds after the greedy \s* (which gives one
\* character back when everything up to the "]" is whitespace)
tagGroup(t, i) ==
  LET inner == SubSeq(t, i + Len(ButtonsTag), Len(trimEnd(t)) - 1)
      rest == trimStart(inner)
  IN IF rest = <<>> THEN <<inner[Len(inner)]>> ELSE rest

tagLabels(t, i) ==
  LET parts == split(tagGroup(t, i), ",")
  IN nonEmpty([k \in DOMAIN parts |-> stripQuotes(trim(parts[k]))])

\* the first index from i on that holds no whitespace (Len(t) + 1 if none)
skipWs(t, i) ==
  LET S == {k \in i..Len(t) : t[k] \notin WhiteSpace}
  IN IF S = {} THEN Len(t) + 1 ELSE Min(S)

\* \[[^\]\n]+\] at index i: the index of its "]", 0 when it does not match
bracketEnd(t, i) ==
  IF i > Len(t) \/ t[i] # "[" THEN 0
  ELSE LET S == {k \in (i + 1)..Len(t) : t[k] \in {"]", "\n"}}
       IN IF S = {} THEN 0
          ELSE LET j == Min(S)
               IN IF t[j] = "]" /\ j > i + 1 THEN j ELSE 0

\* t from index s on matches (\n\s*\[[^\]\n]+\])* \s*$ and, with the n groups
\* before s, holds at least two groups
RECURSIVE lineGroups(_, _, _)
lineGroups(t, s, n) ==
  \/ n >= 2 /\ \A k \in s..Len(t) : t[k] \in WhiteSpace
  \/ /\ s <= Len(t)
     /\ t[s] = "\n"
     /\ LET e == bracketEnd(t, skipWs(t, s + 1))
        IN e # 0 /\ lineGroups(t, e + 1, n + 1)

\* t from index s on matches \s*(\[[^\]\n]+\]\s*)* $ with at least two groups
RECURSIVE inlineGroups(_, _, _)
inlineGroups(t, s, n) ==
  LET b == skipWs(t, s)
  IN \/ n >= 2 /\ b > Len(t)
     \/ LET e == bracketEnd(t, b)
        IN e # 0 /\ inlineGroups(t, e + 1, n + 1)

\* the index where trailing[0] starts, 0 when neither pattern matches
trailingIndex(t) ==
  LET A == {s \in DOMAIN t : lineGroups(t, s, 0)}
      B == {s \in DOMAIN t : inlineGroups(t, s, 0)}
  IN IF A # {} THEN Min(A) ELSE IF B # {} THEN Min(B) ELSE 0

\* [...trailing[0].matchAll(/\[([^\]\n]+)\]/g)].map(m => m[1].trim())
RECURSIVE bracketLabels(_, _)
bracketLabels(t, p) ==
  LET S == {i \in p..Len(t) : bracketEnd(t, i) # 0}
  IN IF S = {} THEN <<>>
     ELSE LET i == Min(S)
              e == bracketEnd(t, i)
          IN <<trim(SubSeq(t, i + 1, e - 1))>> \o bracketLabels(t, e + 1)

\* l.trim().replace(/^[-•*]\s*/, '')
stripMarker(line) ==
  LET l == trim(line)
  IN IF l # <<>> /\ Head(l) \in {"-", "*"} THEN trimStart(Tail(l)) ELSE l

\* line.split(/\s+/).length of a trimmed, non-empty line
wordCount(l) ==
  1 + Cardinality({i \in 2..Len(l) :
                     l[i] \in WhiteSpace /\ l[i - 1] \notin WhiteSpace})

SentenceEnd == {".", "!", "?", ":", ";"}

isBare(line) ==
  LET l == stripMarker(line)
  IN l # <<>> /\ wordCount(l) <= 5 /\ l[Len(l)] \notin SentenceEnd

\* the loop over the last lines: at most four, stops at the first line
\* that is not bare
RECURSIVE bareCount(_, _)
bareCount(lines, n) ==
  IF n < 4 /\ n < Len(lines) /\ isBare(lines[Len(lines) - n])
  THEN bareCount(lines, n + 1) ELSE n

\* text.replace(/\[BUTTONS:[\s\S]*$/i, '')
stripFragment(t) ==
  LET S == {i \in DOMAIN t : tagAt(t, i)}
  IN IF S = {} THEN t ELSE SubSeq(t, 1, Min(S) - 1)

parseButtons(text) ==
  LET m == completeTagIndex(text)
      tr == trailingIndex(text)
      labels == nonEmpty(bracketLabels(text, tr))
      lines == split(trimEnd(text), "\n")
      n == bareCount(lines, 0)
      bareLabels ==
        nonEmpty([k \in 1..n |-> stripMarker(lines[Len(lines) - n + k])])
      remaining == trim(joinWith(SubSeq(lines, 1, Len(lines) - n), "\n"))
      cleaned == trim(stripFragment(text))
  IN IF text = <<>> THEN [buttons |-> <<>>, content |-> <<>>]
     ELSE IF m # 0
     THEN [buttons |-> tagLabels(text, m),
           content |-> trim(SubSeq(text, 1, m - 1))]
     ELSE IF tr # 0 /\ Len(labels) >= 2
     THEN [buttons |-> labels, content |-> trim(SubSeq(text, 1, tr - 1))]
     ELSE IF n >= 2 /\ remaining # <<>>
     THEN [buttons |-> bareLabels, content |-> remaining]
     ELSE IF cleaned # trim(text)
     THEN [buttons |-> <<>>, content |-> cleaned]
     ELSE [buttons |-> <<>>, content |-> text]

\* What precedes the buttons in a response: nothing, a sentence, a heading
\* without punctuation, a command on a line of its own, text with brackets,
\* text that quotes a tag, a long line, a sentence and a short line.
Bodies ==
  { <<>>,
    <<"H", "e", "r", "e", "'", "s", " ", "t", "h", "e", " ", "f", "i", "x",
        ".">>,
    <<"E", "x", "p", "l", "a", "n", "a", "t", "i", "o", "n", " ", "t", "e",
        "x", "t">>,
    <<"P", "a", "r", "t", "i", "a", "l", " ", "a", "n", "s", "w", "e", "r">>,
    <<"R", "u", "n", " ", "t", "h", "i", "s", ":", "\n", "l", "s", " ", "-",
        "l", "a">>,
    <<"S", "e", "e", " ", "[", "1", "]", " ", "a", "n", "d", " ", "[", "2",
        "]", ".">>,
    <<"U", "s", "e", " ", "[", "B", "U", "T", "T", "O", "N", "S", ":", " ",
        "\"", "x", "\"", "]", " ", "t", "a", "g", "s", ".">>,
    <<"o", "n", "e", " ", "t", "w", "o", " ", "t", "h", "r", "e", "e", " ",
        "f", "o", "u", "r", " ", "f", "i", "v", "e", " ", "s", "i", "x">>,
    <<"D", "o", "n", "e", "!", "\n", "\n", "A", "n", "y", "t", "h", "i", "n",
        "g", " ", "e", "l", "s", "e">> }

LabelLists ==
  { <<<<"M", "o", "r", "e", " ", "d", "e", "t", "a", "i", "l">>, <<"S", "i",
      "m", "p", "l", "e", "r">>>>,
    <<<<"M", "o", "r", "e", " ", "d", "e", "t", "a", "i", "l">>, <<"S", "i",
        "m", "p", "l", "e", "r", " ", "v", "e", "r", "s", "i", "o", "n">>>>,
    <<<<"O", "n", "e">>, <<"S", "i", "m", "p", "l", "e", "r">>, <<"M", "o",
        "r", "e", " ", "d", "e", "t", "a", "i", "l">>>>,
    <<<<"Y", "e", "s", ",", " ", "p", "l", "e", "a", "s", "e">>, <<"O", "n",
        "e">>>>,
    <<<<"O", "n", "e">>, <<"S", "i", "m", "p", "l", "e", "r">>, <<"M", "o",
        "r", "e", " ", "d", "e", "t", "a", "i", "l">>, <<"S", "i", "m", "p",
        "l", "e", "r", " ", "v", "e", "r", "s", "i", "o", "n">>>> }

quoted(ls, q) == [k \in DOMAIN ls |-> q \o ls[k] \o q]

\* [BUTTONS: "A", "B", ...]
completeTag(ls, q) ==
  <<"[", "B", "U", "T", "T", "O", "N", "S", ":",
      " ">> \o flatten([k \in DOMAIN ls |->
      (IF k = 1 THEN <<>> ELSE <<",", " ">>) \o quoted(ls, q)[k]]) \o <<"]">>

\* the tag cut off after "[BUTTONS:" and c characters of its labels
fragment(ls, c) ==
  LET tag == completeTag(ls, <<"\"">>)
  IN SubSeq(tag, 1, Len(ButtonsTag) + c)

MaxCut == 6

PBNew == [body |-> <<>>, buttons |-> <<>>, content |-> <<>>, kind |-> "none",
          labels |-> <<>>, text |-> <<>>]

\* the AI response reaches parseButtons
parsed(kind, body, ls, text) ==
  LET r == parseButtons(text)
  IN [body |-> body, buttons |-> r.buttons, content |-> r.content,
      kind |-> kind, labels |-> ls, text |-> text]

PBStep(p) == pb' = p /\ UNCHANGED
  <<orch, ts, captures, finalizers, stops, aiCalls, timers, env, ghost, wh,
    rnd, sp, ais, cv, tsvc, starting>>

ParseTagged ==
  \E body \in Bodies, ls \in LabelLists, q \in {<<"\"">>, <<"'">>, <<>>},
     nl \in {<<"\n">>, <<" ">>}, end \in {<<>>, <<"\n">>} :
    PBStep(parsed("tag", body, ls, body \o nl \o completeTag(ls, q) \o end))

ParseBracketed ==
  \E body \in Bodies, ls \in LabelLists, sep \in {<<"\n">>, <<" ">>} :
    PBStep(parsed("brackets", body, ls,
      body \o flatten([k \in DOMAIN ls |-> sep \o <<"[">> \o ls[k] \o <<"]">>])))

ParseBare ==
  \E body \in Bodies, ls \in LabelLists, mark \in {<<>>, <<"-", " ">>} :
    PBStep(parsed("bare", body, ls,
      body \o flatten([k \in DOMAIN ls |-> <<"\n">> \o mark \o ls[k]])))

ParseFragment ==
  \E body \in Bodies, ls \in LabelLists, c \in 0..MaxCut :
    PBStep(parsed("fragment", body, ls, body \o <<"\n">> \o fragment(ls, c)))

ParsePlain ==
  \E body \in Bodies : PBStep(parsed("plain", body, <<>>, body))

\* one call of parseButtons in a behaviour: the function keeps no state
PBNext ==
  /\ pb.kind = "none"
  /\ ParseTagged \/ ParseBracketed \/ ParseBare \/ ParseFragment \/ ParsePlain

\* ------------------------------------------------------------ response streams
\* converse() of the concrete AI providers, one element of the response
\* stream at a time. An element is a line "data: ..." of the HTTP body
\* (OpenAI, Anthropic) or an event chunk of the AWS SDK stream (Bedrock).

MaxElements == 3

AIProviders == {"openai", "anthropic", "bedrock"}

\* what JSON.parse makes of an element: an object that carries text, an
\* object that carries none (message_start, usage, ...), or a SyntaxError
Elements ==
  [kind : {"delta"}, text : {<<"a">>, <<"b">>}]
    \cup [kind : {"meta", "garbage"}, text : {<<>>}]

ConverseNew ==
  [provider |-> "none", pc |-> "idle", text |-> <<>>, failure |-> "none",
   parsable |-> <<>>, skipped |-> 0, n |-> 0]

converseBegin(c, provider, status) ==
  IF status = 200
  THEN [ConverseNew EXCEPT !.provider = provider, !.pc = "streaming"]
  ELSE [ConverseNew EXCEPT !.provider = provider, !.pc = "rejected",
                           !.failure = "status"]

\* the elements seen so far, for the properties: the text of the parsable
\* ones and the number of unparsable ones
seen(c, e) ==
  [c EXCEPT !.n = @ + 1,
            !.parsable = IF e.kind = "delta" THEN @ \o e.text ELSE @,
            !.skipped = IF e.kind = "garbage" THEN @ + 1 ELSE @]

\* streamRequest, res.on('data'): try { JSON.parse ... } catch (_) {}
sseData(c, e) ==
  IF e.kind = "delta" THEN [seen(c, e) EXCEPT !.text = @ \o e.text]
  ELSE seen(c, e)

\* AnthropicProvider.converse, res.on('data'): the same loop
anthropicData(c, e) == sseData(c, e)

\* BedrockProvider.converse, for await (const event of response.body):
\* JSON.parse is not guarded, its SyntaxError rejects converse()
bedrockEvent(c, e) ==
  IF e.kind = "garbage"
  THEN [seen(c, e) EXCEPT !.pc = "rejected", !.failure = "parse"]
  ELSE IF e.kind = "delta" THEN [seen(c, e) EXCEPT !.text = @ \o e.text]
  ELSE seen(c, e)

\* res.on('end') / the end of the for await loop
converseEnd(c) == [c EXCEPT !.pc = "resolved"]

ConverseStep(c) == cv' = c /\ UNCHANGED
  <<orch, ts, captures, finalizers, stops, aiCalls, timers, env, ghost, wh,
    rnd, sp, ais, pb, tsvc, starting>>

ConverseBegin ==
  /\ cv.pc = "idle"
  /\ \E provider \in AIProviders, status \in {200, 401} :
       ConverseStep(converseBegin(cv, provider, status))

ConverseElement ==
  /\ cv.pc = "streaming"
  /\ cv.n < MaxElements
  /\ \E e \in Elements :
       ConverseStep(CASE cv.provider = "openai" -> sseData(cv, e)
                      [] cv.provider = "anthropic" -> anthropicData(cv, e)
                      [] cv.provider = "bedrock" -> bedrockEvent(cv, e))

ConverseEnd ==
  /\ cv.pc = "streaming"
  /\ ConverseStep(converseEnd(cv))

ConverseNext == ConverseBegin \/ ConverseElement \/ ConverseEnd

\* ------------------------------------------------------------ TranscribeService
\* The service that owns the transcription provider. An instance is running
\* while its socket is open (AWS, Deepgram) or its inference timer is set
\* (Whisper); wired while the service's forwarding listeners are on it.

MaxProviders == 3

TranscribeTypes == {"aws", "deepgram", "whisper"}

TranscribeServiceNew ==
  [config |-> "aws", providerType |-> "null", provider |-> 0,
   instances |-> <<>>]

\* getProvider(): on a change of type the old instance loses its listeners
\* and a new instance replaces it
tsGetProvider(t) ==
  IF t.providerType # t.config
  THEN LET t1 == IF t.provider # 0
                 THEN [t EXCEPT !.instances[t.provider].wired = FALSE]
                 ELSE t
       IN [t1 EXCEPT !.instances = Append(@, [type |-> t.config,
                                              running |-> FALSE,
                                              wired |-> FALSE]),
                     !.provider = Len(t.instances) + 1,
                     !.providerType = t.config]
  ELSE t

\* start(): getProvider, wireProviderEvents, provider.start()
tsStart(t) ==
  LET t1 == tsGetProvider(t)
  IN [t1 EXCEPT !.instances[t1.provider].wired = TRUE,
                !.instances[t1.provider].running = TRUE]

\* stop(): provider.stop(), then the forwarding listeners are removed
tsStop(t) ==
  IF t.provider = 0 THEN t
  ELSE [t EXCEPT !.instances[t.provider].running = FALSE,
                 !.instances[t.provider].wired = FALSE]

\* the 'config:set' handler: the value is stored; switching to whisper also
\* calls warmup(), which calls getProvider()
tsConfigSet(t, type) ==
  LET t1 == [t EXCEPT !.config = type]
  IN IF type = "whisper" THEN tsGetProvider(t1) ELSE t1

TSStep(t) == tsvc' = t /\ UNCHANGED
  <<orch, ts, captures, finalizers, stops, aiCalls, timers, env, ghost, wh,
    rnd, sp, ais, pb, cv, starting>>

TSConfigSet ==
  \E type \in TranscribeTypes :
    /\ tsGetProvider([tsvc EXCEPT !.config = type]) # [tsvc EXCEPT !.config = type]
         => Len(tsvc.instances) < MaxProviders
    /\ TSStep(tsConfigSet(tsvc, type))

TSStart ==
  /\ tsvc.providerType # tsvc.config => Len(tsvc.instances) < MaxProviders
  /\ TSStep(tsStart(tsvc))

TSStop == TSStep(tsStop(tsvc))

TSNext == TSConfigSet \/ TSStart \/ TSStop

\* ------------------------------------------------------------ initial state
Init ==
  /\ orch = [state |-> State.IDLE, aiInFlight |-> FALSE, finalizing |-> FALSE,
             conversation |-> EmptyConversation, currentRound |-> EmptyRound,
             roundNumber |-> 0, contextReady |-> 0]
  /\ ts = [listeners |-> 0, running |-> FALSE]
  /\ captures = [s \in 1..MaxInputs |-> [pc |-> "none", own |-> FALSE]]
  /\ finalizers = <<>>
  /\ stops = <<>>
  /\ aiCalls = <<>>
  /\ timers = <<>>
  /\ env = [budget |-> MaxInputs]
  /\ ghost = [sessionId |-> 0, history |-> {}, sent |-> NoEvent]
  /\ wh = WhisperNew
  /\ rnd = RoundNew
  /\ sp = StreamNew
  /\ ais = AIServiceNew
  /\ pb = PBNew
  /\ cv = ConverseNew
  /\ tsvc = TranscribeServiceNew
  /\ starting = <<>>

\* --------------------------------------------------------- context capture
\* end of captureContext: contextReady = null, then the finalizeRound that
\* awaits this promise (if any) resumes
captureFinish(w, s, d) ==
  LET w1 == [w EXCEPT !.orch.contextReady = 0,
                      !.captures[s] = [pc |-> "none", own |-> FALSE]]
      waiting == {i \in DOMAIN w.finalizers : w.finalizers[i].cap = s}
  IN IF waiting = {} THEN w1
     ELSE LET i == CHOOSE j \in waiting : TRUE
          IN finalizeAfterContext(
               [w1 EXCEPT !.finalizers = RemoveAt(@, i)], w.finalizers[i], d)

\* getActiveWindow() resolved: windowInfo is stored in this.conversation as
\* it is now; the target of the screenshot assignment is evaluated before
\* the await of capture()
captureWindow(w, s) ==
  [w EXCEPT !.orch.conversation.windowInfo = s,
            !.captures[s] = [pc |-> "shot", own |-> TRUE]]

\* capture() resolved with an image (got) or null
captureShot(w, s, got, d) ==
  LET w1 == IF w.captures[s].own
            THEN [w EXCEPT !.orch.conversation.screenshot =
                              IF got THEN s ELSE 0]
            ELSE w
  IN IF w1.orch.conversation.screenshot # 0
     THEN [w1 EXCEPT !.captures[s].pc = "flash"]
     ELSE captureFinish(w1, s, d)

\* ------------------------------------------------------ AI call completion
\* what converse() can do: resolve with the answer, or reject with an error
\* whose message matches /not configured|api key|credentials|invalid/i
\* ("credentials") or does not ("failure")
Outcomes == {"answer", "credentials", "failure"}

roundComplete(out) ==
  [event |-> "overlay:round-complete", error |-> out # "answer",
   buttons |-> CASE out = "credentials" -> <<"Settings", "Try again">>
                 [] out = "failure" -> <<"Try again">>
                 [] OTHER -> <<>>]

aiResolve_silentFailure(w, i, out) ==
  LET c == w.aiCalls[i]
      w1 == [w EXCEPT !.aiCalls = RemoveAt(@, i)]
      w2 == IF w.orch.state = State.CONVERSING /\ out = "answer"
            THEN [w1 EXCEPT !.orch.conversation.messages =
                               Append(@, "assistant"),
                            !.ghost.sent = roundComplete(out)]
            ELSE w1
      w3 == [w2 EXCEPT !.orch.aiInFlight = FALSE]
  IN IF c.fromFinalize THEN [w3 EXCEPT !.orch.finalizing = FALSE] ELSE w3

\* respondToUser after `await this.aiService.converse(...)`: the answer or
\* the error becomes one assistant message (buttons: the answer's own, here
\* none, or those of the catch block) and is sent as round-complete; then
\* the finally blocks of respondToUser and finalizeRound
aiResolve(w, i, out) ==
  LET c == w.aiCalls[i]
      w1 == [w EXCEPT !.aiCalls = RemoveAt(@, i)]
      w2 == IF w.orch.state = State.CONVERSING
            THEN [w1 EXCEPT !.orch.conversation.messages =
                               Append(@, "assistant"),
                            !.ghost.sent = roundComplete(out)]
            ELSE w1
      w3 == [w2 EXCEPT !.orch.aiInFlight = FALSE]
  IN IF c.fromFinalize THEN [w3 EXCEPT !.orch.finalizing = FALSE] ELSE w3

\* the provider's 'error' event (websocket error, or close with a code other
\* than 1000, which also ends the provider's running state), forwarded to the
\* orchestrator's 'error' listener
onProviderError(w, closed) ==
  onServiceError(IF closed THEN [w EXCEPT !.ts.running = FALSE] ELSE w)

\* provider.stop() resolved for stops[i]: listeners are removed and the
\* caller continues
drainDone(w, i, d) ==
  LET k == w.stops[i]
      w1 == removeListeners([w EXCEPT !.stops = RemoveAt(@, i)])
  IN CASE k.who = "finalize" -> finalizeTail(w1, k, d)
       [] k.who = "cancel" -> [w1 EXCEPT !.timers = Append(@, k.sess)]
       [] k.who = "save" -> saveAndResetTail(w1)

\* ----------------------------------------------------------------- actions
PendingCancels(w) ==
  Len(w.timers) + Cardinality({i \in DOMAIN w.stops : w.stops[i].who = "cancel"})

Trigger ==
  /\ orch.state = State.IDLE => ts.listeners < MaxListeners
  /\ (orch.state = State.CONVERSING /\ ~orch.aiInFlight /\ ~orch.finalizing)
       => (orch.roundNumber < MaxRound /\ ts.listeners < MaxListeners)
  /\ \E d \in BOOLEAN, ok \in BOOLEAN :
       CommitInput(onTriggerDown(World, d, ok))

Cancel ==
  /\ PendingCancels(World) < MaxTimers
  /\ \E d \in BOOLEAN : CommitInput(onCancel(World, d))

Close ==
  \E d \in BOOLEAN : CommitInput(onClose(World, d))

ButtonClick ==
  /\ Len(aiCalls) < MaxCalls
  /\ \E label \in {"Settings", "Dismiss", "Try again"}, d \in BOOLEAN :
       CommitInput(onButtonClick(World, label, d))

ProviderFinal ==
  /\ ts.running
  /\ orch.currentRound.segments < MaxSegments
  /\ Commit(onFinal(World))

DrainFinal ==
  \E i \in DOMAIN stops :
    /\ ~stops[i].emitted
    /\ orch.currentRound.segments < MaxSegments
    /\ Commit(onFinal([World EXCEPT !.stops[i].emitted = TRUE]))

DrainDone ==
  \E i \in DOMAIN stops, d \in BOOLEAN : Commit(drainDone(World, i, d))

CaptureWindow ==
  \E s \in DOMAIN captures :
    /\ captures[s].pc = "win"
    /\ Commit(captureWindow(World, s))

CaptureShot ==
  \E s \in DOMAIN captures, got \in BOOLEAN, d \in BOOLEAN :
    /\ captures[s].pc = "shot"
    /\ Commit(captureShot(World, s, got, d))

CaptureFlashDone ==
  \E s \in DOMAIN captures, d \in BOOLEAN :
    /\ captures[s].pc = "flash"
    /\ Commit(captureFinish(World, s, d))

AIResolve ==
  \E i \in DOMAIN aiCalls, out \in Outcomes : Commit(aiResolve(World, i, out))

ProviderError ==
  /\ ts.running /\ ts.listeners > 0
  /\ \E closed \in BOOLEAN : Commit(onProviderError(World, closed))

TimerFire ==
  \E i \in DOMAIN timers :
    Commit(hideAndReset([World EXCEPT !.timers = RemoveAt(@, i)]))

\* ---------------------------------------- start() that settles in a later task
\* onTriggerDown up to the await of transcribeService.start() in
\* startTranscription: the listeners are registered, the provider is not
\* running yet and the call is pending for its session
onTriggerDownAwait(w, d) ==
  LET w1 == onTriggerDown(w, d, TRUE)
  IN IF w1.ts.listeners > w.ts.listeners
     THEN [w1 EXCEPT !.ts.running = w.ts.running,
                     !.starting = Append(@, w1.ghost.sessionId)]
     ELSE w1

\* startTranscription after its await: start() resolved (ok), or it rejected
\* and the catch block runs
startSettled(w, i, ok) ==
  LET w1 == [w EXCEPT !.starting = RemoveAt(@, i)]
  IN IF ok THEN [w1 EXCEPT !.ts.running = TRUE] ELSE onServiceError(w1)

TriggerAwait ==
  /\ orch.state = State.IDLE => ts.listeners < MaxListeners
  /\ (orch.state = State.CONVERSING /\ ~orch.aiInFlight /\ ~orch.finalizing)
       => (orch.roundNumber < MaxRound /\ ts.listeners < MaxListeners)
  /\ Len(starting) < MaxStarts
  /\ \E d \in BOOLEAN : CommitInput(onTriggerDownAwait(World, d))

StartSettled ==
  \E i \in DOMAIN starting, ok \in BOOLEAN : Commit(startSettled(World, i, ok))

LateNext ==
  \/ TriggerAwait
  \/ StartSettled
  \/ Cancel
  \/ Close
  \/ DrainDone
  \/ TimerFire

Next ==
  \/ Trigger
  \/ Cancel
  \/ Close
  \/ ButtonClick
  \/ ProviderFinal
  \/ DrainFinal
  \/ DrainDone
  \/ CaptureWindow
  \/ CaptureShot
  \/ CaptureFlashDone
  \/ AIResolve
  \/ TimerFire

Spec == Init /\ [][Next]_vars

TypeOK ==
  /\ orch.state \in States
  /\ orch.roundNumber \in 0..MaxRound
  /\ ts.listeners \in 0..MaxListeners

\* The same program with LiveInputs input events and with the scheduling the
\* event loop guarantees: a timer that was set fires, and provider.stop()
\* returns (its wait is bounded and the final inference ends).
LiveInit ==
  /\ orch = [state |-> State.IDLE, aiInFlight |-> FALSE, finalizing |-> FALSE,
             conversation |-> EmptyConversation, currentRound |-> EmptyRound,
             roundNumber |-> 0, contextReady |-> 0]
  /\ ts = [listeners |-> 0, running |-> FALSE]
  /\ captures = [s \in 1..MaxInputs |-> [pc |-> "none", own |-> FALSE]]
  /\ finalizers = <<>>
  /\ stops = <<>>
  /\ aiCalls = <<>>
  /\ timers = <<>>
  /\ env = [budget |-> LiveInputs]
  /\ ghost = [sessionId |-> 0, history |-> {}, sent |-> NoEvent]
  /\ wh = WhisperNew
  /\ rnd = RoundNew
  /\ sp = StreamNew
  /\ ais = AIServiceNew
  /\ pb = PBNew
  /\ cv = ConverseNew
  /\ tsvc = TranscribeServiceNew
  /\ starting = <<>>

LiveSpec ==
  LiveInit /\ [][Next]_vars /\ WF_vars(TimerFire) /\ WF_vars(DrainDone)

\* The same with a streaming provider, which can emit 'error' while it runs.
ErrNext == Next \/ ProviderError

ErrSpec ==
  LiveInit /\ [][ErrNext]_vars /\ WF_vars(TimerFire) /\ WF_vars(DrainDone)

\* the Whisper provider alone, driven by start, stop, chunks and its timer
SpecWhisper == Init /\ [][WhisperNext]_vars

\* the Whisper provider's energy gate, with enough chunks to pass the tail
SpecGate == Init /\ [][GateNext]_vars

\* a streaming provider alone, driven by start, stop, chunks and its sockets
SpecStream == Init /\ [][StreamNext]_vars

\* the AIService alone, driven by config changes, converse and invalidation
SpecAI == Init /\ [][AINext]_vars

\* parseButtons alone, on the responses of ParseTagged .. ParsePlain
SpecButtons == Init /\ [][PBNext]_vars

\* one converse() of one provider
SpecConverse == Init /\ [][ConverseNext]_vars

\* the transcription service and its provider instances
SpecService == Init /\ [][TSNext]_vars

\* one round's texts alone, driven by the provider's partials and finals
SpecRound == Init /\ [][RoundNext]_vars

\* the orchestrator with start() calls that settle after their trigger
SpecLate == Init /\ [][LateNext]_vars

\* ------------------------------------------------------------- properties
\* finalizeRound calls of the current session and round that still await
\* contextReady or stopTranscription
PendingFinalizes ==
  {[sess |-> finalizers[i].sess, round |-> finalizers[i].round] :
     i \in DOMAIN finalizers}
  \cup {[sess |-> stops[i].sess, round |-> stops[i].round] :
          i \in {j \in DOMAIN stops : stops[j].who = "finalize"}}

CurrentFinalizePending ==
  [sess |-> ghost.sessionId, round |-> orch.roundNumber] \in PendingFinalizes

\* C1: the state is always one of IDLE, RECORDING, CONVERSING, CANCELLED, and
\* whenever it is CANCELLED it eventually becomes IDLE.
C1_CancelledIsTransient ==
  /\ [](orch.state \in States)
  /\ (orch.state = State.CANCELLED) ~> (orch.state = State.IDLE)

C1_Witness == orch.state = State.CANCELLED /\ Len(timers) > 0

\* C2: at most one aiService.converse call of a session is pending.
C2_OneCallPending ==
  \A s \in 1..MaxInputs :
    Cardinality({i \in DOMAIN aiCalls : aiCalls[i].sess = s}) <= 1

\* C3: while the session is live and the finalize of its current round still
\* awaits context capture or stopTranscription, a trigger is ignored (so no
\* second finalize or AI call is started for the round).
C3_SecondTriggerIgnored ==
  [][(orch.state # State.IDLE /\ CurrentFinalizePending /\ Trigger)
       => UNCHANGED vars]_vars

\* C4: the result of an AI call whose session was cancelled or closed before
\* it resolved is discarded: no message is appended to any conversation.
C4_StaleResultDiscarded ==
  [][\A i \in DOMAIN aiCalls :
       ((aiCalls[i].sess # ghost.sessionId
           \/ orch.state \in {State.IDLE, State.CANCELLED})
        /\ \E out \in Outcomes : Commit(aiResolve(World, i, out)))
       => orch'.conversation.messages = orch.conversation.messages]_vars

\* C5: in IDLE after a session, the provider is stopped and no orchestrator
\* listener is registered on the transcription service.
C5_IdleMeansStopped ==
  (orch.state = State.IDLE /\ ghost.sessionId > 0)
    => (~ts.running /\ ts.listeners = 0)

\* C6: from the cancel signal until the reset, nothing is saved to history.
C6_CancelledNeverSaved ==
  [][orch.state = State.CANCELLED => ghost'.history = ghost.history]_vars

\* the fields a finalize that aborts must leave alone
RoundFields(o) ==
  <<o.state, o.aiInFlight, o.finalizing, o.roundNumber, o.currentRound,
    o.conversation.messages>>

\* a step in which a finalizeRound resumes and finds the round number changed
AbortAfterStop ==
  \E i \in DOMAIN stops :
    /\ stops[i].who = "finalize"
    /\ stops[i].round # orch.roundNumber
    /\ \E d \in BOOLEAN : Commit(drainDone(World, i, d))

AbortAfterContext ==
  \E i \in DOMAIN finalizers :
    /\ finalizers[i].round # orch.roundNumber
    /\ captures[finalizers[i].cap].pc # "none"
    /\ captures'[finalizers[i].cap].pc = "none"

\* C7: a finalize that finds the round number changed has no side effect on
\* the state, the flags, the round or the conversation.
C7_AbortHasNoSideEffect ==
  [][(AbortAfterStop \/ AbortAfterContext)
       => RoundFields(orch') = RoundFields(orch)]_vars

\* C8: a final that the provider emits while the finalize of the current
\* round awaits stop() is appended to the round's segments.
C8_FinalsReachTheRound ==
  [][\A i \in DOMAIN stops :
       (/\ stops[i].who = "finalize"
        /\ stops[i].sess = ghost.sessionId
        /\ stops[i].round = orch.roundNumber
        /\ orch.state # State.IDLE
        /\ ~stops[i].emitted
        /\ stops' = [stops EXCEPT ![i].emitted = TRUE])
       => orch'.currentRound.segments > orch.currentRound.segments]_vars

\* the step of runInference that drops a buffer with no speech content
NoSpeechDiscard ==
  /\ wh.inferenceTimer /\ ~wh.processing /\ ~wh.hasSpeechContent
  /\ wh' = [Wh EXCEPT !.pendingAudio = <<>>, !.pendingSamples = 0]

\* C9: unless stop()'s bounded wait expired, a chunk leaves the buffer only
\* after it was part of the input of an inference, or with a buffer that has
\* no speech content.
C9_AcceptedChunksInferred ==
  [][(~wh'.waitExpired /\ ~NoSpeechDiscard)
       => \A c \in Range(wh.pendingAudio) :
            c \in Range(wh'.pendingAudio) \/ c \in wh'.inferred]_vars

BlankRound ==
  orch.currentRound.segments = 0 /\ ~orch.currentRound.currentPartial

FinalizeDrainStarted ==
  \E k \in DOMAIN stops' :
    k > Len(stops) /\ stops'[k].who = "finalize"

SaveDrainPending == \E k \in DOMAIN stops : stops[k].who = "save"

\* a step in which a finalizeRound of the current round comes to build the
\* transcript: after its stop() resolved, after the context capture ended
\* with nothing to wait for in stop(), or at once in the trigger
FinalizeReadsRound ==
  \/ \E i \in DOMAIN stops :
       /\ stops[i].who = "finalize"
       /\ stops[i].round = orch.roundNumber
       /\ \E d \in BOOLEAN : Commit(drainDone(World, i, d))
  \/ \E j \in DOMAIN finalizers :
       /\ finalizers[j].round = orch.roundNumber
       /\ captures[finalizers[j].cap].pc # "none"
       /\ captures'[finalizers[j].cap].pc = "none"
       /\ ~FinalizeDrainStarted
  \/ /\ orch.state = State.RECORDING
     /\ orch.contextReady = 0
     /\ Trigger
     /\ ~FinalizeDrainStarted

\* C11: a finalize that finds no segment and no partial appends no message
\* and starts no AI call; it saves only a conversation that has messages and
\* resets to IDLE with transcription stopped, at once or, when stop() has to
\* wait, as soon as stop() has returned.
C11_BlankFinalizeCloses ==
  /\ [][(BlankRound /\ FinalizeReadsRound) =>
          /\ Len(orch'.conversation.messages) <= Len(orch.conversation.messages)
          /\ aiCalls' = aiCalls
          /\ (orch.conversation.messages = <<>> => ghost'.history = ghost.history)
          /\ \/ /\ orch'.state = State.IDLE
                /\ ~ts'.running /\ ts'.listeners = 0
                /\ orch'.conversation.messages = <<>>
             \/ /\ stops' # stops
                /\ stops'[Len(stops')].who = "save"]_vars
  /\ SaveDrainPending ~> (orch.state = State.IDLE)

C11_Witness ==
  /\ orch.state = State.CONVERSING /\ orch.finalizing /\ BlankRound
  /\ orch.conversation.messages = <<>>
  /\ \E i \in DOMAIN stops :
       /\ stops[i].who = "finalize"
       /\ stops[i].sess = ghost.sessionId
       /\ stops[i].round = orch.roundNumber

Busy == orch.aiInFlight \/ orch.finalizing

C13_IdleCloseCancelNoOp ==
  orch.state = State.IDLE =>
    \A d \in BOOLEAN :
      /\ onClose(World, d) = World
      /\ onCancel(World, d) = World
      /\ onButtonClick(World, "Dismiss", d) = World

C13_Witness ==
  /\ orch.state = State.IDLE
  /\ ghost.sessionId > 0
  /\ ghost.history # {}
  /\ \A d \in BOOLEAN : onCancel(World, d) = World

\* a step inside one session: no new session starts and the session is not
\* reset
SameSession ==
  /\ ghost'.sessionId = ghost.sessionId
  /\ orch.state # State.IDLE
  /\ orch'.state # State.IDLE

\* C14: a capture is started only by the trigger that starts a session (one
\* capture per session, none on a new round); inside a session a screenshot
\* that is set does not change; and from the first AI call of a session on,
\* the screenshot and the window info that respondToUser passes to the AI do
\* not change, so that every call of the session receives the same ones.
C14_ContextCapturedOnce ==
  /\ [][\A s \in DOMAIN captures :
          (captures[s].pc = "none" /\ captures'[s].pc # "none") =>
            /\ orch.state = State.IDLE
            /\ ghost'.sessionId = ghost.sessionId + 1
            /\ s = ghost'.sessionId]_vars
  /\ [][(SameSession /\ orch.conversation.screenshot # 0) =>
          orch'.conversation.screenshot = orch.conversation.screenshot]_vars
  /\ [][(SameSession /\ Len(orch.conversation.messages) > 0) =>
          /\ orch'.conversation.screenshot = orch.conversation.screenshot
          /\ orch'.conversation.windowInfo = orch.conversation.windowInfo]_vars

\* the step in which converse() of the pending call i rejects
AIRejects(i, out) == out # "answer" /\ Commit(aiResolve(World, i, out))

\* C15: when converse() rejects while the state is CONVERSING, the step
\* appends exactly one assistant message, sends it as round-complete marked
\* as an error with the buttons Settings + Try again (credential-like error)
\* or Try again (any other), clears aiInFlight (and finalizing, when the call
\* came from finalizeRound) and leaves the state CONVERSING; and whenever the
\* state is CONVERSING with no AI call in flight a button click is accepted,
\* and so is a trigger once no finalize is in flight.
C15_AIFailureLandsInConversing ==
  /\ [][\A i \in DOMAIN aiCalls, out \in Outcomes :
          (orch.state = State.CONVERSING /\ AIRejects(i, out)) =>
            /\ orch'.state = State.CONVERSING
            /\ orch'.conversation.messages =
                 Append(orch.conversation.messages, "assistant")
            /\ ghost'.sent.event = "overlay:round-complete"
            /\ ghost'.sent.error
            /\ ghost'.sent.buttons =
                 IF out = "credentials" THEN <<"Settings", "Try again">>
                 ELSE <<"Try again">>
            /\ ~orch'.aiInFlight
            /\ (aiCalls[i].fromFinalize => ~orch'.finalizing)]_vars
  /\ []((orch.state = State.CONVERSING /\ ~orch.aiInFlight) =>
          /\ \A d \in BOOLEAN : onButtonClick(World, "Try again", d) # World
          /\ ~orch.finalizing =>
               \A d \in BOOLEAN, ok \in BOOLEAN :
                 onTriggerDown(World, d, ok).orch.state = State.RECORDING
                   \/ ~ok)

C15_Witness ==
  /\ orch.state = State.CONVERSING
  /\ ghost.sent = roundComplete("credentials")
  /\ ~orch.aiInFlight /\ ~orch.finalizing
  /\ Len(orch.conversation.messages) = 2

ErrorShown ==
  [event |-> "overlay:error", error |-> TRUE, buttons |-> <<"Settings", "Dismiss">>]

\* the step in which the provider emits 'error' during a session
RuntimeError ==
  /\ orch.state # State.IDLE
  /\ \E closed \in BOOLEAN : Commit(onProviderError(World, closed))

\* the step in which a trigger starts a session or a round and start() throws
StartFails ==
  /\ orch.state = State.IDLE \/ (orch.state = State.CONVERSING /\ ~Busy)
  /\ \E d \in BOOLEAN : CommitInput(onTriggerDown(World, d, FALSE))

\* C16: a provider 'error' event during a session, and a start() that fails,
\* are surfaced in the same step: 'overlay:error' is sent with the action
\* buttons Settings and Dismiss, the state is CONVERSING afterwards, and the
\* step does not start the provider again.
C16_ProviderErrorSurfaced ==
  [][(RuntimeError \/ StartFails) =>
       /\ orch'.state = State.CONVERSING
       /\ ghost'.sent = ErrorShown
       /\ (ts'.running => ts.running)]_vars

C16_Witness ==
  /\ orch.state = State.CONVERSING
  /\ ghost.sent = ErrorShown
  /\ ts.running
  /\ orch.currentRound.segments > 0

\* the step in which the running provider receives a chunk of the given rms
ChunkArrives(rms) ==
  /\ wh.running
  /\ WhisperStep(whisperSendAudioChunk(Wh, rms, CHUNK_SAMPLES))

Buffered == wh'.pendingAudio = Append(wh.pendingAudio, wh.chunks + 1)

\* C17: the running provider buffers every chunk at or above the threshold;
\* it buffers a chunk below the threshold (an all-zero one included) exactly
\* when a chunk at or above the threshold was received in this run and fewer
\* than SPEECH_TAIL_CHUNKS chunks below the threshold were received since
\* the last such chunk; any other chunk leaves the buffer as it is.
C17_EnergyGate ==
  [][\A rms \in {0, SILENCE_RMS_THRESHOLD - 1, SILENCE_RMS_THRESHOLD} :
       ChunkArrives(rms) =>
         /\ rms >= SILENCE_RMS_THRESHOLD => Buffered
         /\ rms < SILENCE_RMS_THRESHOLD =>
              IF wh.heard /\ wh.quiet < SPEECH_TAIL_CHUNKS
              THEN Buffered
              ELSE /\ wh'.pendingAudio = wh.pendingAudio
                   /\ wh'.pendingSamples = wh.pendingSamples]_vars

C17_Witness ==
  /\ wh.running /\ wh.heard
  /\ wh.quiet = SPEECH_TAIL_CHUNKS + 1
  /\ Len(wh.pendingAudio) = SPEECH_TAIL_CHUNKS + 1

\* the step in which the inference timer fires
TimerFires == wh.inferenceTimer /\ WhisperStep(runInference(Wh, FALSE))

\* the step in which transcribe() of the pending pass i resolves or rejects
PassEnds(i, res) == WhisperStep(transcribeDone(Wh, i, res))

MinSamples == (MIN_DURATION_MS * SAMPLE_RATE) \div 1000

\* C18: a timer-driven pass starts an inference only on a non-empty buffer of
\* at least MinSamples (24000) samples with the speech-content flag set, and
\* its input is the whole buffer; when transcribe() resolves for it, the
\* buffer and the sample count are empty and the flag is unset; the timer
\* leaves a buffer with speech content that is too short untouched; and any
\* inference on fewer than MinSamples samples is the final pass of stop().
C18_TimerPass ==
  /\ [][(TimerFires /\ wh'.inflight # wh.inflight) =>
          /\ wh.pendingAudio # <<>>
          /\ wh.pendingSamples >= MinSamples
          /\ wh.hasSpeechContent
          /\ wh'.inflight = Append(wh.inflight,
                                   [input |-> wh.pendingAudio,
                                    samples |-> wh.pendingSamples,
                                    isFinal |-> FALSE,
                                    speech |-> wh.speechBuffered])]_vars
  /\ [][\A i \in DOMAIN wh.inflight, res \in Results :
          (~wh.inflight[i].isFinal /\ ~res.thrown /\ PassEnds(i, res)) =>
            /\ wh'.pendingAudio = <<>>
            /\ wh'.pendingSamples = 0
            /\ ~wh'.hasSpeechContent]_vars
  /\ [][(TimerFires /\ wh.hasSpeechContent /\ wh.pendingSamples < MinSamples) =>
          /\ wh'.pendingAudio = wh.pendingAudio
          /\ wh'.pendingSamples = wh.pendingSamples
          /\ wh'.hasSpeechContent
          /\ wh'.inflight = wh.inflight]_vars
  /\ [](\A i \in DOMAIN wh.inflight :
          wh.inflight[i].samples < MinSamples => wh.inflight[i].isFinal)

C18_Witness ==
  /\ wh.running /\ wh.processing
  /\ Len(wh.inflight) = 1
  /\ ~wh.inflight[1].isFinal
  /\ wh.inflight[1].samples = MinSamples
  /\ Len(wh.inflight[1].input) = 1

\* C19: when the timer fires on a non-empty buffer whose speech-content flag
\* is unset, the buffer and the sample count are reset to empty and no
\* inference is started.
C19_NoSpeechBufferDiscarded ==
  [][(TimerFires /\ wh.pendingAudio # <<>> /\ ~wh.hasSpeechContent) =>
       /\ wh'.pendingAudio = <<>>
       /\ wh'.pendingSamples = 0
       /\ wh'.inflight = wh.inflight
       /\ wh'.processing = wh.processing
       /\ wh'.inferred = wh.inferred]_vars

C19_Witness ==
  /\ wh.running /\ wh.inferenceTimer
  /\ wh.pendingAudio # <<>> /\ ~wh.hasSpeechContent
  /\ ~wh.processing /\ wh.inflight = <<>>
  /\ runInference(Wh, FALSE).pendingAudio = <<>>

Dot == <<".">>

You == <<"y", "o", "u">>

ThankYouForWatching == <<"T", "h", "a", "n", "k", " ", "y", "o", "u", " ", "f", "o", "r", " ", "w", "a", "t", "c", "h", "i", "n", "g", "!">>

TurnOffTheLights == <<"t", "u", "r", "n", " ", "o", "f", "f", " ", "t", "h", "e", " ", "l", "i", "g", "h", "t", "s">>

\* C20: isHallucination rejects every text of at most one character and the
\* fillers ".", "you" and "Thank you for watching!", and accepts "turn off
\* the lights"; when transcribe() resolves with a text that is blank or
\* rejected, no 'final' is emitted and lastSegmentText keeps its value; when it
\* resolves with an accepted text, exactly one 'final' with that text is
\* emitted and lastSegmentText becomes that text.
C20_HallucinationFilter ==
  /\ [](/\ \A text \in TranscribedTexts : Len(text) <= 1 => isHallucination(text)
        /\ isHallucination(Dot)
        /\ isHallucination(You)
        /\ isHallucination(ThankYouForWatching)
        /\ ~isHallucination(TurnOffTheLights)
        /\ {Dot, You, ThankYouForWatching} \subseteq Rejected
        /\ TurnOffTheLights \in TranscribedTexts \ Rejected)
  /\ [][\A i \in DOMAIN wh.inflight, res \in Results :
          (~res.thrown /\ PassEnds(i, res)) =>
            IF trim(res.raw) = <<>> \/ trim(res.raw) \in Rejected
            THEN /\ wh'.emitted = <<>>
                 /\ wh'.lastSegmentText = wh.lastSegmentText
            ELSE /\ wh'.emitted = <<trim(res.raw)>>
                 /\ wh'.lastSegmentText = trim(res.raw)]_vars

C20_Witness ==
  /\ wh.emitted = <<TurnOffTheLights>>
  /\ wh.lastSegmentText = TurnOffTheLights
  /\ wh.pendingAudio = <<>>

\* --- C21..C30
SocketOpen == sp.ws # 0 /\ sp.socks[sp.ws].state = "open"

AllSent(p) == UNION {Range(p.socks[k].sent) : k \in DOMAIN p.socks}

\* the steps that end or restart a connection attempt
AttemptEnds ==
  \/ StreamConnectFailed
  \/ StreamStop
  \/ \E hasKey \in BOOLEAN : StreamStep(streamStart(sp, hasKey))

\* C21: a chunk passed to sendAudioChunk while the provider is connecting and
\* its socket is not open is appended to the queue; when a socket opens, the
\* queue is sent on a socket in arrival order and emptied; and unless the
\* connection attempt fails or start() or stop() is called, a queued chunk
\* leaves the queue only by being sent.
C21_QueuedChunksFlushed ==
  /\ [][(sp.connecting /\ ~SocketOpen /\ StreamSendAudioChunk) =>
          sp'.pendingChunks = Append(sp.pendingChunks, sp.chunks + 1)]_vars
  /\ [][StreamOpened =>
          /\ sp'.pendingChunks = <<>>
          /\ \E k \in DOMAIN sp.socks :
               sp'.socks[k].sent = sp.socks[k].sent \o sp.pendingChunks]_vars
  /\ [][~AttemptEnds =>
          \A c \in Range(sp.pendingChunks) :
            c \in Range(sp'.pendingChunks) \/ c \in AllSent(sp')]_vars

\* the provider id was changed since this.provider was constructed
ProviderSwitched == ais.provider # 0 /\ ais.providerType # ais.config

\* C22: the converse that follows a change of the provider id uses an
\* instance constructed in that step for the new id, and by then the previous
\* provider's invalidateClient has been called and it caches no client.
C22_SwitchTearsDownPrevious ==
  [][(ProviderSwitched /\ AIConverse) =>
       /\ ais'.used = Len(ais.instances) + 1
       /\ ais'.instances[ais'.used].type = ais.config
       /\ ais'.instances[ais.provider].invalidated
       /\ ~ais'.instances[ais.provider].client]_vars

\* C23: a response that ends with a complete [BUTTONS: "A", "B", ...] tag
\* yields the labels of the tag, in order and without quotes, as buttons and
\* the trimmed text before the tag as content.
C23_CompleteTagParsed ==
  pb.kind = "tag" =>
    pb.buttons = pb.labels /\ pb.content = trim(pb.body)

\* the lines of a response, list markers and surrounding blanks removed
ResponseLines(t) ==
  LET ls == split(trimEnd(t), "\n")
  IN [k \in DOMAIN ls |-> stripMarker(ls[k])]

\* C24: a response without brackets that ends with bare short lines after
\* some text yields two to four of its last lines as buttons and the text
\* before them as content.
C24_BareLinesAsButtons ==
  (pb.kind = "bare" /\ pb.body # <<>> /\ "[" \notin Range(pb.text)) =>
    \E n \in 2..4 :
      LET ls == split(trimEnd(pb.text), "\n")
      IN /\ n < Len(ls)
         /\ pb.buttons = SubSeq(ResponseLines(pb.text), Len(ls) - n + 1, Len(ls))
         /\ pb.content = trim(joinWith(SubSeq(ls, 1, Len(ls) - n), "\n"))

\* C25: a response that ends with a [BUTTONS: fragment that has no closing
\* bracket yields neither content nor a button label that holds the fragment,
\* whatever text precedes it.
C25_FragmentStripped ==
  pb.kind = "fragment" =>
    /\ ~contains(fold(pb.content), ButtonsTag)
    /\ \A k \in DOMAIN pb.buttons : ~contains(fold(pb.buttons[k]), ButtonsTag)

\* C26: for every provider an unparsable element of the response stream does
\* not fail the call, and a call that resolves returns the text of the
\* parsable elements, those before and those after the unparsable ones.
C26_UnparsableElementSkipped ==
  /\ cv.failure # "parse"
  /\ cv.pc = "resolved" => cv.text = cv.parsable

\* the first n messages alternate, starting with a user message
Alternates(ms, n) ==
  \A k \in 1..n : ms[k] = IF k % 2 = 1 THEN "user" ELSE "assistant"

\* an AI call of the session that is open has not resolved yet
CallPending ==
  /\ orch.state # State.IDLE
  /\ \E i \in DOMAIN aiCalls : aiCalls[i].sess = ghost.sessionId

\* C27: the messages of the session alternate user and assistant, starting
\* with user; with no AI call pending the list ends with an assistant message
\* (or is empty), with a call pending it ends with exactly one user message
\* more.
C27_MessagesAlternate ==
  LET ms == orch.conversation.messages
  IN /\ Alternates(ms, Len(ms))
     /\ CallPending => Len(ms) % 2 = 1
     /\ ~CallPending => Len(ms) % 2 = 0

\* C28: once the transcription provider has been switched, the previous
\* instance is torn down: every instance other than the current one is
\* stopped and carries no listeners of the service.
C28_PreviousProviderTornDown ==
  \A k \in DOMAIN tsvc.instances :
    k # tsvc.provider =>
      ~tsvc.instances[k].running /\ ~tsvc.instances[k].wired

\* C29: whenever the orchestrator is IDLE after a session has ended, the
\* session data is at its defaults: no messages, no screenshot, no window
\* info, round number 0, an empty current round, aiInFlight and finalizing
\* false, contextReady null. Continuations of the ended session run while
\* the state is IDLE, so none of them may change these values.
C29_IdleSessionDataAtDefaults ==
  (orch.state = State.IDLE /\ ghost.sessionId > 0) =>
    /\ orch.conversation = EmptyConversation
    /\ orch.currentRound = EmptyRound
    /\ orch.roundNumber = 0
    /\ ~orch.aiInFlight
    /\ ~orch.finalizing
    /\ orch.contextReady = 0

\* transcribe() rejects
Thrown == [thrown |-> TRUE, raw |-> <<>>]

StaleFinalizeResumes ==
  \/ \E i \in DOMAIN stops :
       /\ stops[i].who = "finalize"
       /\ stops[i].sess # ghost.sessionId
       /\ \E d \in BOOLEAN : Commit(drainDone(World, i, d))
  \/ \E j \in DOMAIN finalizers :
       /\ finalizers[j].sess # ghost.sessionId
       /\ captures[finalizers[j].cap].pc # "none"
       /\ captures'[finalizers[j].cap].pc = "none"
       /\ Len(finalizers') < Len(finalizers)

\* C31: a finalizeRound that resumes after its session ended and a new one
\* started leaves the new session alone: the transcription service, the
\* state, the round, the conversation and the pending AI calls and stops are
\* as before.
C31_StaleFinalizeIsInert ==
  [][StaleFinalizeResumes =>
       /\ ts' = ts
       /\ orch'.state = orch.state
       /\ orch'.roundNumber = orch.roundNumber
       /\ orch'.currentRound = orch.currentRound
       /\ orch'.conversation = orch.conversation
       /\ aiCalls' = aiCalls
       /\ \A k \in DOMAIN stops' : stops'[k] \in Range(stops)]_vars

\* a step in which respondToUser pushes its user message and calls converse
RespondStarts ==
  \/ Len(aiCalls') > Len(aiCalls)
  \/ /\ Len(orch'.conversation.messages) > Len(orch.conversation.messages)
     /\ orch'.conversation.messages[Len(orch'.conversation.messages)] = "user"

\* C32: a user message is appended and converse is called only in state
\* CONVERSING; respondToUser leaves the state as it finds it, so the state
\* after the step is the state it ran in.
C32_RespondOnlyWhenConversing ==
  [][RespondStarts => orch'.state = State.CONVERSING]_vars

\* the resets that cancels have scheduled or will schedule once their
\* stopTranscription has returned, after the step
PendingCancelsAfter ==
  Len(timers') + Cardinality({i \in DOMAIN stops' : stops'[i].who = "cancel"})

\* C33: a cancel received in state CANCELLED schedules no further reset, and
\* a delayed reset that fires in a session started after the cancel that
\* scheduled it leaves that session as it is.
C33_OneResetPerCancel ==
  /\ [][(orch.state = State.CANCELLED /\ Cancel) =>
          PendingCancelsAfter = PendingCancels(World)]_vars
  /\ [][\A i \in DOMAIN timers :
          (timers[i] # ghost.sessionId
             /\ Commit(hideAndReset([World EXCEPT !.timers = RemoveAt(@, i)])))
            => orch' = orch]_vars

\* C34: at most one set of partial/final/error listeners of the orchestrator
\* is registered on the transcription service.
C34_OneListenerSet == ts.listeners <= 1

\* the pending start() of socket k settles with 'open'
Settles(k) == \E throws \in BOOLEAN : StreamStep(streamOpened(sp, k, throws))

\* C35: when stop() was called while the start() of the provider's socket was
\* still connecting, the provider is not running and its socket is not open
\* once that start() has settled.
C35_StopWhileConnectingNotLost ==
  [][\A k \in sp.starts :
       (k \in sp.stopped /\ sp.ws = k /\ Settles(k))
         => (~sp'.running /\ sp'.socks[k].state # "open")]_vars

\* the 'close' event of a socket that stop() closed, while a socket of a
\* later start() is this.ws
StaleClose ==
  \E k \in DOMAIN sp.socks, normal \in BOOLEAN :
    /\ sp.socks[k].state = "closing"
    /\ sp.ws # 0
    /\ StreamStep(streamClosed(sp, k, normal))

\* C36: the close event of a socket that stop() closed neither changes
\* running nor emits an error once start() was called again.
C36_StaleCloseIsInert ==
  [][StaleClose => (sp'.running = sp.running /\ sp'.errors = sp.errors)]_vars

\* C37: at most one whisperAddon.transcribe() call of the Whisper provider is
\* in progress.
C37_OneInferenceInProgress == Len(wh.inflight) <= 1

\* C38: the state leaves IDLE only for RECORDING, and it never goes from
\* CANCELLED to CONVERSING; in particular a start() that fails after its
\* session has ended does not move the state.
C38_EndedSessionStaysEnded ==
  /\ [][orch.state = State.IDLE
          => orch'.state \in {State.IDLE, State.RECORDING}]_vars
  /\ [][orch.state = State.CANCELLED => orch'.state # State.CONVERSING]_vars

\* C39: every whisperAddon.transcribe() call, of a timer pass or of the final
\* pass of stop(), gets a buffer that holds a chunk at or above the threshold.
C39_NoInferenceOnSilence ==
  \A i \in DOMAIN wh.inflight : wh.inflight[i].speech

====
